---- MODULE Spec2Model ----
(***************************************************************************)
(* fc-lab: a total-order adapter over IEEE-754 doubles (TotalFloat) and a  *)
(* top-down merge sort over vectors of TotalFloat.                         *)
(*                                                                         *)
(* Floats are modelled by their bit fields (sign, exponent, mantissa) in a *)
(* reduced-width binary format that keeps every IEEE-754 class: signed     *)
(* zeros, subnormals, normals, signed infinities and NaNs with several     *)
(* payloads and both signs.                                                *)
(***************************************************************************)
EXTENDS Integers, Sequences, FiniteSets, TLC

\* Largest exponent field (all ones): infinities and NaNs.
ExpMax == 3
\* Largest mantissa field (all ones).
MantMax == 3
\* Longest vector handed to merge_sort.
MaxLen == 4
\* Longest vector handed to merge directly.
MaxMergeLen == 2
\* Call frames the stack can hold before the process aborts.
MaxDepth == 8

VARIABLES
    x, y,        \* adapter: the two TotalFloat operands
    ord,         \* adapter: result of lib.rs cmp(x, y)
    equal,       \* adapter: result of lib.rs eq(x, y)
    callStack,   \* main.rs adapter: frames of cmp / partial_cmp in progress
    mainOrd,     \* main.rs adapter: result of main.rs cmp(x, y)
    input,       \* the vector handed to the outermost merge_sort
    stack,       \* call stack of merge_sort / merge frames
    ret,         \* value returned by the frame that just finished
    result,      \* value returned to the outermost caller
    pc,          \* "idle", "run", "done" or "overflow"
    round,       \* 1: sort of the input, 2: sort of the sorted result
    first        \* result of round 1

vars == <<x, y, ord, equal, callStack, mainOrd,
          input, stack, ret, result, pc, round, first>>

adapterVars == <<x, y, ord, equal, callStack, mainOrd>>
sortVars == <<input, stack, ret, result, pc, round, first>>

(***************************************************************************)
(* f64                                                                     *)
(***************************************************************************)
F64 == [sign : {0, 1}, exp : 0..ExpMax, mant : 0..MantMax]

RECURSIVE Pow2(_)
Pow2(n) == IF n = 0 THEN 1 ELSE 2 * Pow2(n - 1)

\* Magnitude scaled by the weight of the lowest mantissa bit: subnormals
\* have no implicit leading one, all other exponents have it.
Magnitude(f) ==
    IF f.exp = 0 THEN f.mant
    ELSE (MantMax + 1 + f.mant) * Pow2(f.exp - 1)

Numeric(f) == IF f.sign = 1 THEN 0 - Magnitude(f) ELSE Magnitude(f)

\* f64::is_nan: exponent all ones and a non-zero mantissa, any sign.
F64IsNan(f) == f.exp = ExpMax /\ f.mant # 0

\* f64 == f64: false as soon as one side is NaN, -0.0 == +0.0.
F64Eq(a, b) == ~F64IsNan(a) /\ ~F64IsNan(b) /\ Numeric(a) = Numeric(b)

\* f64::partial_cmp: None as soon as one side is NaN.
F64PartialCmp(a, b) ==
    IF F64IsNan(a) \/ F64IsNan(b) THEN "None"
    ELSE IF Numeric(a) < Numeric(b) THEN "Less"
    ELSE IF Numeric(a) = Numeric(b) THEN "Equal"
    ELSE "Greater"

(***************************************************************************)
(* TotalFloat (lib.rs)                                                     *)
(***************************************************************************)
Orderings == {"Less", "Equal", "Greater"}

\* PartialEq::eq
Eq(a, b) == (F64IsNan(a) /\ F64IsNan(b)) \/ F64Eq(a, b)

\* Mutant: the (false, true) arm is missing, the pair falls to the numeric arm.
CmpNoRightNanArm(a, b) ==
    IF F64IsNan(a) /\ F64IsNan(b) THEN "Equal"
    ELSE IF F64IsNan(a) THEN "Less"
    ELSE IF F64PartialCmp(a, b) = "None" THEN "Panic"
    ELSE F64PartialCmp(a, b)

\* Mutant: NaN sorts above every number instead of below.
CmpNanGreatest(a, b) ==
    IF F64IsNan(a) /\ F64IsNan(b) THEN "Equal"
    ELSE IF F64IsNan(a) THEN "Greater"
    ELSE IF F64IsNan(b) THEN "Less"
    ELSE F64PartialCmp(a, b)

\* Ord::cmp; "Panic" is the failed expect("Unexpected Partial Comparison
\* Failure").
Cmp(a, b) ==
    IF F64IsNan(a) /\ F64IsNan(b) THEN "Equal"
    ELSE IF F64IsNan(a) /\ ~F64IsNan(b) THEN "Less"
    ELSE IF ~F64IsNan(a) /\ F64IsNan(b) THEN "Greater"
    ELSE IF F64PartialCmp(a, b) = "None" THEN "Panic"
    ELSE F64PartialCmp(a, b)

\* PartialOrd::partial_cmp is Some(cmp); `>` is partial_cmp == Some(Greater).
Gt(a, b) == Cmp(a, b) = "Greater"

(***************************************************************************)
(* Values used to fill vectors: two NaNs of different sign and payload,    *)
(* both infinities, both zeros and one normal number.                      *)
(***************************************************************************)
NanA == [sign |-> 0, exp |-> ExpMax, mant |-> 1]
NanB == [sign |-> 1, exp |-> ExpMax, mant |-> 2]
NegInf == [sign |-> 1, exp |-> ExpMax, mant |-> 0]
PosInf == [sign |-> 0, exp |-> ExpMax, mant |-> 0]
NegZero == [sign |-> 1, exp |-> 0, mant |-> 0]
PosZero == [sign |-> 0, exp |-> 0, mant |-> 0]
One == [sign |-> 0, exp |-> 1, mant |-> 0]

Elems == {NanA, NanB, NegInf, NegZero, PosZero, One, PosInf}

SeqsUpTo(S, n) == UNION {[1..k -> S] : k \in 0..n}

\* Ascending under the adapter: no element is Greater than its successor.
Ascending(s) == \A i \in 1..(Len(s) - 1) : Cmp(s[i], s[i + 1]) \in {"Less", "Equal"}

\* Number of occurrences of the value v (same bits) in s.
Count(s, v) == Cardinality({i \in 1..Len(s) : s[i] = v})

Range(s) == {s[i] : i \in 1..Len(s)}

(***************************************************************************)
(* The adapter of lib.rs and its copy in main.rs, applied to a pair        *)
(***************************************************************************)
AdapterIdle ==
    /\ input = <<>>
    /\ stack = <<>>
    /\ ret = <<>>
    /\ result = <<>>
    /\ pc = "idle"
    /\ round = 1
    /\ first = <<>>

SortIdle ==
    /\ x = PosZero
    /\ y = PosZero
    /\ ord = "none"
    /\ equal = "none"
    /\ callStack = <<>>
    /\ mainOrd = "none"

InitAdapter ==
    /\ x \in F64
    /\ y \in F64
    /\ ord = "none"
    /\ equal = "none"
    /\ callStack = <<>>
    /\ mainOrd = "none"
    /\ AdapterIdle

\* lib.rs: a.cmp(&b)
LibCmp ==
    /\ pc = "idle"
    /\ ord = "none"
    /\ ord' = Cmp(x, y)
    /\ UNCHANGED <<x, y, equal, callStack, mainOrd>>
    /\ UNCHANGED sortVars

\* lib.rs: a == b
LibEq ==
    /\ pc = "idle"
    /\ equal = "none"
    /\ equal' = IF Eq(x, y) THEN "true" ELSE "false"
    /\ UNCHANGED <<x, y, ord, callStack, mainOrd>>
    /\ UNCHANGED sortVars

\* main.rs: a caller invokes a.cmp(&b)
MainCall ==
    /\ pc = "idle"
    /\ mainOrd = "none"
    /\ callStack = <<>>
    /\ callStack' = <<"cmp">>
    /\ UNCHANGED <<x, y, ord, equal, mainOrd>>
    /\ UNCHANGED sortVars

\* main.rs cmp, the three arms with a NaN operand: the ordering is returned,
\* through every pending partial_cmp (Some) and cmp (expect) frame.
MainCmpNan ==
    /\ callStack # <<>>
    /\ callStack[Len(callStack)] = "cmp"
    /\ F64IsNan(x) \/ F64IsNan(y)
    /\ mainOrd' = IF F64IsNan(x) /\ F64IsNan(y) THEN "Equal"
                  ELSE IF F64IsNan(x) THEN "Less"
                  ELSE "Greater"
    /\ callStack' = <<>>
    /\ UNCHANGED <<x, y, ord, equal>>
    /\ UNCHANGED sortVars

\* A call from a frame of the main.rs adapter: a new frame, or the abort of
\* the process when the stack is exhausted.
MainPush(callee) ==
    IF Len(callStack) < MaxDepth
    THEN /\ callStack' = Append(callStack, callee)
         /\ mainOrd' = mainOrd
    ELSE /\ callStack' = callStack
         /\ mainOrd' = "StackOverflow"

\* main.rs cmp, the (false, false) arm: self.partial_cmp(other) with
\* self : &TotalFloat resolves to TotalFloat's own partial_cmp.
MainCmpBoth ==
    /\ mainOrd = "none"
    /\ callStack # <<>>
    /\ callStack[Len(callStack)] = "cmp"
    /\ ~F64IsNan(x) /\ ~F64IsNan(y)
    /\ MainPush("partial_cmp")
    /\ UNCHANGED <<x, y, ord, equal>>
    /\ UNCHANGED sortVars

\* main.rs partial_cmp: Some(self.cmp(other))
MainPartialCmp ==
    /\ mainOrd = "none"
    /\ callStack # <<>>
    /\ callStack[Len(callStack)] = "partial_cmp"
    /\ MainPush("cmp")
    /\ UNCHANGED <<x, y, ord, equal>>
    /\ UNCHANGED sortVars

NextAdapter ==
    \/ LibCmp
    \/ LibEq
    \/ MainCall
    \/ MainCmpNan
    \/ MainCmpBoth
    \/ MainPartialCmp

SpecAdapter == InitAdapter /\ [][NextAdapter]_vars

(***************************************************************************)
(* merge_sort and merge as call frames on a stack                          *)
(***************************************************************************)
\* Frame of merge_sort(input): n is input.len() at entry; phase is "start",
\* then "argA" / "argB" while the first / second argument of merge is being
\* evaluated, then "merge" while merge runs.
SortFrame(s) ==
    [op |-> "merge_sort", n |-> Len(s), input |-> s, phase |-> "start",
     a |-> <<>>, b |-> <<>>, ia |-> 0, ib |-> 0, buffer |-> <<>>]

\* Frame of merge(a, b): ia / ib elements of a / b have been pushed to the
\* buffer; next_a is Some(a[ia + 1]) while ia < len(a), None afterwards.
MergeFrame(a, b) ==
    [op |-> "merge", n |-> 0, input |-> <<>>, phase |-> "loop",
     a |-> a, b |-> b, ia |-> 0, ib |-> 0, buffer |-> <<>>]

Top == stack[Len(stack)]

HasA(f) == f.ia < Len(f.a)
HasB(f) == f.ib < Len(f.b)
HeadA(f) == f.a[f.ia + 1]
HeadB(f) == f.b[f.ib + 1]

\* Mutant: lists of two elements are returned as they are.
IsBaseUpToTwo(n) == n <= 2

\* `if n <= 1`
IsBase(n) == n <= 1

\* Mutant: the split starts one element too late.
SplitOffTailSkipsOne(v, at) == SubSeq(v, at + 2, Len(v))

\* Mutant: the split starts at index 0, the whole vector is split off.
SplitOffTailAll(v, at) == v

\* Vec::split_off(at): the returned vector [at, len)
SplitOffTail(v, at) == SubSeq(v, at + 1, Len(v))

\* Vec::split_off(at): what is left in the vector, [0, at)
SplitOffHead(v, at) == SubSeq(v, 1, at)

\* Mutant: `at >= bt`, the right head wins a tie.
TakeRightOnTie(at, bt) == Cmp(at, bt) \in {"Greater", "Equal"}

\* Mutant: `at < bt`, the greater head is pushed first.
TakeRightWhenLess(at, bt) == Cmp(at, bt) = "Less"

\* `if at > bt`: the head of b is pushed
TakeRight(at, bt) == Gt(at, bt)

\* A frame returns v to its caller, or to the outermost caller.
Return(v) ==
    /\ stack' = SubSeq(stack, 1, Len(stack) - 1)
    /\ IF Len(stack) = 1
       THEN /\ pc' = "done"
            /\ result' = v
            /\ ret' = <<>>
       ELSE /\ pc' = pc
            /\ result' = result
            /\ ret' = <<v>>

\* The top frame, updated to caller, calls callee; the process aborts when
\* the stack is exhausted.
Call(caller, callee) ==
    /\ result' = result
    /\ IF Len(stack) < MaxDepth
       THEN /\ stack' = Append([stack EXCEPT ![Len(stack)] = caller], callee)
            /\ pc' = pc
            /\ ret' = <<>>
       ELSE /\ stack' = stack
            /\ pc' = "overflow"
            /\ ret' = ret

\* merge_sort, n <= 1: the input is returned
SortBase ==
    /\ pc = "run"
    /\ Top.op = "merge_sort" /\ Top.phase = "start"
    /\ IsBase(Top.n)
    /\ Return(Top.input)
    /\ UNCHANGED <<input, round, first>>
    /\ UNCHANGED adapterVars

\* merge_sort, n >= 2: input.split_off(n / 2) and the call of merge_sort on
\* it, the first argument of merge
SortSplit ==
    /\ pc = "run"
    /\ Top.op = "merge_sort" /\ Top.phase = "start"
    /\ ~IsBase(Top.n)
    /\ Call([Top EXCEPT !.phase = "argA",
                        !.input = SplitOffHead(Top.input, Top.n \div 2)],
            SortFrame(SplitOffTail(Top.input, Top.n \div 2)))
    /\ UNCHANGED <<input, round, first>>
    /\ UNCHANGED adapterVars

\* merge_sort: the first argument is ready, merge_sort(input) is called on
\* what split_off left, the second argument of merge
SortSecond ==
    /\ pc = "run"
    /\ Top.op = "merge_sort" /\ Top.phase = "argA"
    /\ ret # <<>>
    /\ Call([Top EXCEPT !.phase = "argB", !.a = ret[1], !.input = <<>>],
            SortFrame(Top.input))
    /\ UNCHANGED <<input, round, first>>
    /\ UNCHANGED adapterVars

\* merge_sort: both arguments are ready, merge is called
SortMerge ==
    /\ pc = "run"
    /\ Top.op = "merge_sort" /\ Top.phase = "argB"
    /\ ret # <<>>
    /\ Call([Top EXCEPT !.phase = "merge", !.b = ret[1]],
            MergeFrame(Top.a, ret[1]))
    /\ UNCHANGED <<input, round, first>>
    /\ UNCHANGED adapterVars

\* merge_sort: the value of merge is the value of merge_sort
SortReturn ==
    /\ pc = "run"
    /\ Top.op = "merge_sort" /\ Top.phase = "merge"
    /\ ret # <<>>
    /\ Return(ret[1])
    /\ UNCHANGED <<input, round, first>>
    /\ UNCHANGED adapterVars

\* One iteration of the loop of merge changes the top frame only.
MergeIter(f) ==
    /\ stack' = [stack EXCEPT ![Len(stack)] = f]
    /\ UNCHANGED <<input, ret, result, pc, round, first>>
    /\ UNCHANGED adapterVars

\* merge, (Some(at), Some(bt)) with at > bt
MergeTakeB ==
    /\ pc = "run"
    /\ Top.op = "merge"
    /\ HasA(Top) /\ HasB(Top)
    /\ Cmp(HeadA(Top), HeadB(Top)) # "Panic"
    /\ TakeRight(HeadA(Top), HeadB(Top))
    /\ MergeIter([Top EXCEPT !.buffer = Append(Top.buffer, HeadB(Top)),
                             !.ib = Top.ib + 1])

\* merge, (Some(at), Some(bt)) otherwise
MergeTakeA ==
    /\ pc = "run"
    /\ Top.op = "merge"
    /\ HasA(Top) /\ HasB(Top)
    /\ Cmp(HeadA(Top), HeadB(Top)) # "Panic"
    /\ ~TakeRight(HeadA(Top), HeadB(Top))
    /\ MergeIter([Top EXCEPT !.buffer = Append(Top.buffer, HeadA(Top)),
                             !.ia = Top.ia + 1])

\* merge, (Some(at), None)
MergeRestA ==
    /\ pc = "run"
    /\ Top.op = "merge"
    /\ HasA(Top) /\ ~HasB(Top)
    /\ MergeIter([Top EXCEPT !.buffer = Append(Top.buffer, HeadA(Top)),
                             !.ia = Top.ia + 1])

\* Mutant: once a is exhausted the heads of b are consumed but not pushed.
MergeRestBDropsHead ==
    /\ pc = "run"
    /\ Top.op = "merge"
    /\ ~HasA(Top) /\ HasB(Top)
    /\ MergeIter([Top EXCEPT !.ib = Top.ib + 1])

\* merge, (None, Some(bt))
MergeRestB ==
    /\ pc = "run"
    /\ Top.op = "merge"
    /\ ~HasA(Top) /\ HasB(Top)
    /\ MergeIter([Top EXCEPT !.buffer = Append(Top.buffer, HeadB(Top)),
                             !.ib = Top.ib + 1])

\* merge, (None, None): break, the buffer is returned
MergeBreak ==
    /\ pc = "run"
    /\ Top.op = "merge"
    /\ ~HasA(Top) /\ ~HasB(Top)
    /\ Return(Top.buffer)
    /\ UNCHANGED <<input, round, first>>
    /\ UNCHANGED adapterVars

\* The caller hands the sorted vector to merge_sort once more.
Resort ==
    /\ pc = "done"
    /\ round = 1
    /\ round' = 2
    /\ first' = result
    /\ input' = result
    /\ stack' = <<SortFrame(result)>>
    /\ pc' = "run"
    /\ UNCHANGED <<ret, result>>
    /\ UNCHANGED adapterVars

InitSortOver(S) ==
    /\ input \in SeqsUpTo(S, MaxLen)
    /\ stack = <<SortFrame(input)>>
    /\ ret = <<>>
    /\ result = <<>>
    /\ pc = "run"
    /\ round = 1
    /\ first = <<>>
    /\ SortIdle

Init == InitSortOver(Elems)

\* merge called directly, on two vectors that are each ascending
InitMerge ==
    /\ input = <<>>
    /\ \E a \in SeqsUpTo(Elems, MaxMergeLen) : \E b \in SeqsUpTo(Elems, MaxMergeLen) :
          /\ Ascending(a)
          /\ Ascending(b)
          /\ stack = <<MergeFrame(a, b)>>
    /\ ret = <<>>
    /\ result = <<>>
    /\ pc = "run"
    /\ round = 1
    /\ first = <<>>
    /\ SortIdle

NextMerge ==
    \/ MergeTakeB
    \/ MergeTakeA
    \/ MergeRestA
    \/ MergeRestB
    \/ MergeBreak

Next ==
    \/ SortBase
    \/ SortSplit
    \/ SortSecond
    \/ SortMerge
    \/ SortReturn
    \/ MergeTakeB
    \/ MergeTakeA
    \/ MergeRestA
    \/ MergeRestB
    \/ MergeBreak
    \/ Resort

Spec == Init /\ [][Next]_vars

SpecMerge == InitMerge /\ [][NextMerge]_vars

\* Termination is a matter of lengths; three values give every outcome of
\* a comparison.
TermElems == {NanA, NegZero, One}

InitTerm == InitSortOver(TermElems)

SpecTerm == InitTerm /\ [][Next]_vars /\ WF_vars(Next)

(***************************************************************************)
(* Properties                                                              *)
(***************************************************************************)
IsNanBits(f) == f.exp = ExpMax /\ f.mant # 0

\* The elements of s that compare Equal to v, in the order they have in s.
EqualTo(s, v) == SelectSeq(s, LAMBDA e : Cmp(e, v) = "Equal")

\* C1: the vector returned by merge_sort is ascending under the adapter's
\* ordering: no element compares Greater than its successor.
C1_SortedAscending ==
    pc = "done" => \A i \in 1..(Len(result) - 1) :
                       Cmp(result[i], result[i + 1]) \in {"Less", "Equal"}

\* A vector holding NaN, an infinity and both zeros, not ascending on entry,
\* has been sorted.
C1_Witness ==
    /\ pc = "done"
    /\ round = 1
    /\ {NanA, NegInf, NegZero, PosZero} \subseteq Range(input)
    /\ Cmp(input[1], input[2]) = "Greater"
    /\ result # input

\* C2: the vector returned by merge_sort is a permutation of its input:
\* same length, and every value occurs as often as in the input.
C2_Permutation ==
    pc = "done" =>
        /\ Len(result) = Len(input)
        /\ \A v \in Range(input) \cup Range(result) :
              Count(result, v) = Count(input, v)

\* A vector of odd length with a repeated value has been sorted.
C2_Witness ==
    /\ pc = "done"
    /\ round = 1
    /\ Len(input) = 3
    /\ Count(input, One) = 2
    /\ Count(result, One) = 2
    /\ result # input

\* C3: merge of two ascending vectors returns an ascending vector whose
\* length is the sum of their lengths and whose values are theirs, with
\* multiplicity; a, b or both may be empty.
C3_MergeContract ==
    [][(pc = "run" /\ pc' = "done" /\ Top.op = "merge"
            /\ Ascending(Top.a) /\ Ascending(Top.b)) =>
          /\ Ascending(result')
          /\ Len(result') = Len(Top.a) + Len(Top.b)
          /\ \A v \in Range(Top.a) \cup Range(Top.b) \cup Range(result') :
                Count(result', v) = Count(Top.a, v) + Count(Top.b, v)]_vars

\* merge has returned a vector that interleaves two non-empty inputs.
C3_Witness ==
    /\ pc = "done"
    /\ stack = <<>>
    /\ Len(result) = 2 * MaxMergeLen
    /\ result[1] = NanB
    /\ result[2] = NegInf
    /\ result[3] = NegZero

\* C4: merge_sort is stable: the elements that compare Equal to one another
\* leave in the order they came in.
C4_Stable ==
    pc = "done" => \A v \in Range(input) : EqualTo(result, v) = EqualTo(input, v)

\* C5: NaNs, whatever their sign and payload, are equal to one another and
\* compare Equal; a NaN compares Less than every non-NaN, negative infinity
\* included, and every non-NaN compares Greater than a NaN.
C5_NanMinimumClass ==
    /\ (ord # "none" /\ IsNanBits(x) /\ IsNanBits(y)) => ord = "Equal"
    /\ (equal # "none" /\ IsNanBits(x) /\ IsNanBits(y)) => equal = "true"
    /\ (ord # "none" /\ IsNanBits(x) /\ ~IsNanBits(y)) => ord = "Less"
    /\ (ord # "none" /\ ~IsNanBits(x) /\ IsNanBits(y)) => ord = "Greater"

\* A negative NaN has been compared with negative infinity, and found equal
\* to nothing but NaN.
C5_Witness ==
    /\ x = NanB
    /\ y = NegInf
    /\ ord = "Less"
    /\ equal = "false"

\* C6: cmp of lib.rs returns one of Less, Equal, Greater for every pair: the
\* numeric arm never meets a NaN and its expect never fails.
C6_CmpTotal ==
    ord # "none" => ord \in Orderings

\* The numeric arm has compared the two zeros.
C6_Witness ==
    /\ x = NegZero
    /\ y = PosZero
    /\ ord = "Equal"

\* C7: sorting the sorted vector gives a vector of the same length whose
\* elements are equal, position by position, under the adapter's eq.
C7_Idempotent ==
    (pc = "done" /\ round = 2) =>
        /\ Len(result) = Len(first)
        /\ \A i \in 1..Len(result) : Eq(result[i], first[i])

\* The second sort has returned other bits than the first: the zeros or the
\* NaNs changed places.
C7_Witness ==
    /\ pc = "done"
    /\ round = 2
    /\ Len(result) >= 3
    /\ result # first

\* C8: in merge, when both heads are present and compare Equal, the head of
\* a is pushed and only a's cursor moves; the head of b is pushed only when
\* the head of a is Greater.
C8_TieTakesLeft ==
    [][(pc = "run" /\ Top.op = "merge" /\ HasA(Top) /\ HasB(Top)) =>
          /\ Cmp(HeadA(Top), HeadB(Top)) = "Equal" =>
                /\ stack'[Len(stack)].buffer = Append(Top.buffer, HeadA(Top))
                /\ stack'[Len(stack)].ia = Top.ia + 1
                /\ stack'[Len(stack)].ib = Top.ib
          /\ stack'[Len(stack)].ib # Top.ib =>
                Cmp(HeadA(Top), HeadB(Top)) = "Greater"]_vars

\* The first iteration met -0.0 and +0.0, or two different NaNs, and pushed
\* the head of a.
C8_Witness ==
    /\ pc = "run"
    /\ stack # <<>>
    /\ Top.op = "merge"
    /\ Top.ia = 1
    /\ Top.ib = 0
    /\ HasB(Top)
    /\ Cmp(Top.a[1], HeadB(Top)) = "Equal"
    /\ Top.a[1] # HeadB(Top)
    /\ Top.buffer = <<Top.a[1]>>

\* Every recursive call of merge_sort is made by a frame of length n >= 2,
\* on a non-empty vector shorter than n: n - n/2 elements for the first
\* argument of merge, n/2 for the second.
RecursionShrinks ==
    \A k \in 1..(Len(stack) - 1) :
        (stack[k].op = "merge_sort" /\ stack[k + 1].op = "merge_sort") =>
            /\ stack[k].n >= 2
            /\ stack[k + 1].n >= 1
            /\ stack[k + 1].n < stack[k].n
            /\ stack[k].phase = "argA" =>
                  stack[k + 1].n = stack[k].n - (stack[k].n \div 2)
            /\ stack[k].phase = "argB" => stack[k + 1].n = stack[k].n \div 2

\* A vector of at most one element is returned as it is, by a frame that
\* never leaves its first phase.
BaseCaseReturnsInput ==
    /\ \A k \in 1..Len(stack) :
          (stack[k].op = "merge_sort" /\ stack[k].n <= 1) => stack[k].phase = "start"
    /\ (pc = "done" /\ Len(input) <= 1) => result = input

\* C9: merge_sort returns for every input; the recursion is on shorter,
\* non-empty vectors, vectors of at most one element are returned without
\* recursion, and the stack is never exhausted.
C9_Terminates ==
    /\ <>(pc = "done")
    /\ [](RecursionShrinks /\ BaseCaseReturnsInput /\ pc # "overflow")

\* A vector of four elements went through both levels of recursion and its
\* merges, and was returned.
C9_Witness ==
    /\ pc = "done"
    /\ round = 1
    /\ Len(input) >= 4
    /\ Len(result) = Len(input)

\* C10: cmp of main.rs returns what cmp of lib.rs returns, and its
\* (false, false) arm does not call the adapter's own partial_cmp.
C10_MainEquivalent ==
    /\ mainOrd # "none" => mainOrd = Cmp(x, y)
    /\ \A k \in 1..Len(callStack) : callStack[k] # "partial_cmp"

====
